---- MODULE Spec2Model ----
(***************************************************************************)
(* The collection-rank synchronisation action of the Remix route           *)
(* (src/unnamed/part_003: session-authenticated variant,                   *)
(*  src/unnamed/part_002: ambient shop/token variant), run against the     *)
(* commerce platform that owns the collection, its manual product order    *)
(* and the products' metafields.                                           *)
(*                                                                         *)
(* An invocation of `action` is an async function: it runs without         *)
(* interruption from one `await` to the next, so every action below is the *)
(* code between two awaits of one invocation.  Several invocations may be  *)
(* alive at once; the platform's state is the only thing they share.       *)
(***************************************************************************)
EXTENDS Integers, Sequences, FiniteSets

\* ------------------------------------------------------------------ bounds
MaxProducts == 3        \* products the shop knows (ids 1..MaxProducts)
MaxEdits == 1           \* merchant edits of the collection in one behaviour

\* -------------------------------------------------------- program constants
PageCap == 100          \* products(first: 100, sortKey: MANUAL)
Radix == 10             \* Number.prototype.toString() writes decimal digits

\* The requests served in one behaviour: a first and a second one.
Invocations == 1..2
ProductIds == 1..MaxProducts

\* The one collection the shop has, and an identifier that resolves to nothing.
TheCollection == "gid://shopify/Collection/1"
CollectionIds == {TheCollection, "gid://shopify/Collection/404"}
Handles == {"best-sellers", "sale"}
SortOrders == {"MANUAL", "BEST_SELLING"}
Variants == {"session", "token"}

VARIABLES
    \* --- the platform (owned by the shop, shared by all invocations)
    sortOrder,        \* sortOrder of TheCollection
    shopProducts,     \* its products in manual order (sequence of product ids)
    metafields,       \* [product id, key] -> stored value (<<>> when never set)
    renderedAt,       \* the collection's custom.rendered_at metafield (0: unset)
    clock,            \* the server's clock, read by new Date()
    edits,            \* merchant edits made so far
    \* --- one invocation of `action` (functions over Invocations)
    pc,               \* "idle", "fetch", "write", "stamp" (awaiting ...), "done"
    variant,          \* which route file serves the request
    collectionId,     \* formData.get("collectionId")
    collectionHandle, \* formData.get("collectionHandle")
    collection,       \* data?.data?.collection as fetched
    i,                \* the loop index (0-based)
    results,          \* { success, failed, errors }
    response,         \* what the action returned
    \* --- what the platform saw of each invocation (history)
    queries,          \* read queries received
    fetchLog,         \* the collections served, one per answered read query
    writes,           \* productUpdate mutations received, in order
    stamps,           \* collectionUpdate mutations received
    pcAtStart,        \* where every invocation stood when this one began
    storedAfter,      \* `metafields` when this one returned
    \* --- the page (component App), one browser tab
    uiVariant,        \* which route file renders the page
    fetcher,          \* useFetcher(): state, data and the invocation it carries
    toastMessage,     \* useState: the toast on screen (NoToast: none)
    lastToastId,      \* useState: what the last toast was keyed by
    toasted,          \* the invocations whose outcome was put in a toast (history)
    \* --- the container's entrypoint (docker-entrypoint.js)
    bootPc,           \* where the script is: the await it is suspended at
    argvStart,        \* the command line ends in "npm run start"
    bucketName,       \* process.env.BUCKET_NAME is set
    dataVolume,       \* /data exists
    targetFile,       \* /data/dev.sqlite exists
    sourcePath,       \* what is at /app/prisma/dev.sqlite
    newDb,            \* const newDb
    bootLog           \* the commands spawned and their exits, in order (history)

platformVars == <<sortOrder, shopProducts, metafields, renderedAt, clock, edits>>
invocationVars == <<pc, variant, collectionId, collectionHandle, collection, i,
                    results, response>>
historyVars == <<queries, fetchLog, writes, stamps, pcAtStart, storedAfter>>
uiVars == <<uiVariant, fetcher, toastMessage, lastToastId, toasted>>
bootVars == <<bootPc, argvStart, bucketName, dataVolume, targetFile,
              sourcePath, newDb, bootLog>>
vars == <<platformVars, invocationVars, historyVars, uiVars, bootVars>>

\* ----------------------------------------------------------------- helpers
Min(a, b) == IF a < b THEN a ELSE b

Range(s) == {s[k] : k \in 1..Len(s)}

\* value.toString(): the decimal digits of a positive integer, as a sequence.
RECURSIVE toString(_)
toString(n) ==
    IF n < Radix THEN <<n>> ELSE Append(toString(n \div Radix), n % Radix)

\* The platform's reading of a number_integer metafield value.
RECURSIVE ParseInt(_)
ParseInt(s) ==
    IF Len(s) = 0 THEN 0
    ELSE ParseInt(SubSeq(s, 1, Len(s) - 1)) * Radix + s[Len(s)]

\* `${collectionHandle}_rank`
RankKey(handle) == <<handle, "_rank">>
Keys == {RankKey(h) : h \in Handles}

\* 1-based position of product p in list s (0 when absent).
IndexOf(s, p) ==
    IF p \in Range(s) THEN CHOOSE k \in 1..Len(s) : s[k] = p ELSE 0

\* ------------------------------------------------- values the action builds
NoCollection == [found |-> FALSE, sortOrder |-> "", products |-> <<>>]
NoResults == [success |-> 0, failed |-> 0, errors |-> <<>>]
NoResponse ==
    [status |-> 0, success |-> FALSE, hasResults |-> FALSE,
     results |-> NoResults, error |-> "", message |-> <<>>]

\* json({ error }, { status })
JsonError(msg, status) ==
    [status |-> status, success |-> FALSE, hasResults |-> FALSE,
     results |-> NoResults, error |-> msg, message |-> <<>>]

\* `Successfully updated ${success} products${failed > 0 ? `, ${failed} failed` : ""}`
SuccessMessage(res) ==
    IF res.failed > 0
    THEN <<"Successfully updated", res.success, "products", res.failed, "failed">>
    ELSE <<"Successfully updated", res.success, "products">>

\* json({ success: true, results, message })
JsonSuccess(res) ==
    [status |-> 200, success |-> TRUE, hasResults |-> TRUE,
     results |-> res, error |-> "", message |-> SuccessMessage(res)]

\* The outer catch block.  Only the session variant looks at error.status.
CatchAll(v, outcome) ==
    IF v = "session" /\ outcome = "throw401"
    THEN JsonError("Session expired. Please refresh the page.", 401)
    ELSE JsonError("Network error", 500)

\* if (!admin) / if (!shop || !accessToken)
AuthMissing(v) ==
    IF v = "session"
    THEN JsonError("Authentication required", 401)
    ELSE JsonError("Missing shop or access token", 401)

\* ------------------------------------------------------------ the platform
\* The getCollection query: the collection by id, with its first PageCap
\* products in manual order; null when the id resolves to nothing.
FetchCollection(id, so, prods) ==
    IF id = TheCollection
    THEN [found |-> TRUE, sortOrder |-> so,
          products |-> SubSeq(prods, 1, Min(Len(prods), PageCap))]
    ELSE NoCollection

\* A buggy platform write that adds to the stored number instead of setting it.
ApplyProductUpdateAdding(mf, w) ==
    [mf EXCEPT ![w.productId, w.key] = toString(ParseInt(@) + ParseInt(w.value))]

\* The productUpdate mutation, accepted: the metafield custom.<key> of the
\* product is set to the value sent.
ApplyProductUpdate(mf, w) ==
    [mf EXCEPT ![w.productId, w.key] = w.value]

\* --------------------------------------------------- the action, piecewise
\* if (!collection)          (NotFoundNever: the guard left out)
NotFoundNever(col) == FALSE
NotFound(col) == ~col.found

\* if (collection.sortOrder !== "MANUAL")          (NotManualNever: the guard
\* left out)
NotManualNever(col) == FALSE
NotManual(col) == col.sortOrder # "MANUAL"

\* The list the loop walks: `products`, computed once from the fetched
\* collection before the loop; `live` is what the platform holds now.
\* (LoopCollectionLive: a loop that reads the collection anew each time.)
LoopCollectionLive(snapshot, live) == live
LoopCollection(snapshot, live) == snapshot

\* value: i + 1          (RankValueZeroBased: the index itself;
\* RankValueSharedCounter: a counter shared by all invocations)
RankValueZeroBased(idx) == idx
RankValueSharedCounter(idx) == Len(writes[1]) + Len(writes[2]) + 1
RankValue(idx) == idx + 1

\* The variables of the productUpdate mutation sent for products[idx].
ProductWrite(col, handle, idx) ==
    [productId |-> col.products[idx + 1], key |-> RankKey(handle),
     value |-> toString(RankValue(idx)), outcome |-> "pending"]

\* The loop resumed at index idx (idx < products.length): the requests sent
\* before the invocation next waits.  The code awaits each one.
\* (IssueWritesNoAwait: the remaining writes all sent without awaiting.)
IssueWritesNoAwait(log, col, handle, idx) ==
    log \o [k \in 1..(Len(col.products) - idx) |-> ProductWrite(col, handle, idx + k - 1)]
IssueWrites(log, col, handle, idx) ==
    Append(log, ProductWrite(col, handle, idx))

\* results.success++          (OnSuccessUncounted: the increment left out)
OnSuccessUncounted(res) == res
OnSuccess(res) == [res EXCEPT !.success = @ + 1]

\* catch (error) { results.failed++; results.errors.push({...}) }
\* (OnCatchUncounted: the failure recorded but not counted.)
OnCatchUncounted(res, p) ==
    [res EXCEPT !.errors = Append(@, [productId |-> p, error |-> "Network error"])]
OnCatch(res, p) ==
    [res EXCEPT !.failed = @ + 1,
                !.errors = Append(@, [productId |-> p, error |-> "Network error"])]

\* After the loop: the session variant stamps the collection, always; the
\* token variant has no stamp.  (SendsStampIfClean: the stamp skipped when a
\* product write failed.)
SendsStampIfClean(v, res) == v = "session" /\ res.failed = 0
SendsStamp(v, res) == v = "session"

\* The variables of the collectionUpdate mutation.
StampWrite(id, now) ==
    [id |-> id, key |-> "rendered_at", value |-> now, outcome |-> "pending"]

\* The invocation returns resp; mf is the platform's metafields at that moment.
Finish(inv, resp, mf) ==
    /\ pc' = [pc EXCEPT ![inv] = "done"]
    /\ response' = [response EXCEPT ![inv] = resp]
    /\ storedAfter' = [storedAfter EXCEPT ![inv] = mf]

\* The loop head at index idx with the counters res, log being the writes
\* sent so far: send the next product's write, or leave the loop (session
\* variant: read the clock and send the stamp; token variant: return the
\* aggregate result).
LoopFrom(inv, col, idx, res, log, mf) ==
    /\ i' = [i EXCEPT ![inv] = idx]
    /\ results' = [results EXCEPT ![inv] = res]
    /\ IF idx < Len(col.products)
       THEN /\ pc' = [pc EXCEPT ![inv] = "write"]
            /\ writes' = [writes EXCEPT ![inv] =
                            IssueWrites(log, col, collectionHandle[inv], idx)]
            /\ UNCHANGED <<stamps, clock, response, storedAfter>>
       ELSE IF SendsStamp(variant[inv], res)
       THEN /\ pc' = [pc EXCEPT ![inv] = "stamp"]
            /\ clock' = clock + 1
            /\ writes' = [writes EXCEPT ![inv] = log]
            /\ stamps' = [stamps EXCEPT ![inv] =
                            Append(@, StampWrite(collectionId[inv], clock + 1))]
            /\ UNCHANGED <<response, storedAfter>>
       ELSE /\ writes' = [writes EXCEPT ![inv] = log]
            /\ Finish(inv, JsonSuccess(res), mf)
            /\ UNCHANGED <<stamps, clock>>

\* ----------------------------------------------------------------- the page
\* The table has one row per collection the loader listed.  The row of
\* TheCollection shows its sort order; the other row is a manual collection
\* that has been deleted since the page was loaded.
Rows == CollectionIds
RowSortOrder(row) == IF row = TheCollection THEN sortOrder ELSE "MANUAL"
RowHandle(row) == IF row = TheCollection THEN "best-sellers" ELSE "sale"

\* Session variant: one fetcher for the whole table.  Token variant: one
\* rowFetcher per row.
Fetchers == {"page"} \cup Rows
FetcherOf(v, row) == IF v = "session" THEN "page" ELSE row

IdleFetcher == [state |-> "idle", data |-> NoResponse, inv |-> 0]
NoToast == [content |-> <<>>, tone |-> ""]

\* The text a response carries: the message, or the error.
ToastText(d) == IF d.success THEN d.message ELSE <<d.error>>

\* <Button submit disabled={isSubmitting || col.sortOrder !== "MANUAL"}>
ButtonEnabled(row) ==
    /\ RowSortOrder(row) = "MANUAL"
    /\ fetcher[FetcherOf(uiVariant, row)].state # "submitting"

\* What the toast effect compares lastToastId with: the message or error text
\* (session variant), the row's collection id (token variant).
ToastKey(v, f, d) == IF v = "session" THEN ToastText(d) ELSE <<f>>

\* Whether a change of the fetcher's state re-runs the effect: its
\* dependencies hold fetcher.state (session variant), isSubmitting (token
\* variant).
EffectDepsChange(v, from, to) ==
    IF v = "session" THEN from # to
    ELSE (from = "submitting") # (to = "submitting")

\* The state in which the effect's condition can hold: fetcher.state ===
\* "idle" (session variant), !isSubmitting (token variant).
EffectFiresIn(v, state) ==
    IF v = "session" THEN state = "idle" ELSE state # "submitting"

\* The useEffect that shows the toast, run for fetcher f once the fetchers
\* have become fs.
ToastEffect(f, fs) ==
    LET d == fs[f].data IN
    IF /\ EffectFiresIn(uiVariant, fs[f].state)
       /\ d.success \/ d.error # ""
       /\ lastToastId # ToastKey(uiVariant, f, d)
    THEN IF /\ uiVariant = "session"
            /\ ~d.success
            /\ d.error = "Session expired. Please refresh the page."
         THEN \* window.location.reload(): the page starts afresh
              /\ fetcher' = [g \in Fetchers |-> IdleFetcher]
              /\ toastMessage' = NoToast
              /\ lastToastId' = <<>>
              /\ UNCHANGED toasted
         ELSE /\ fetcher' = fs
              /\ toastMessage' =
                     [content |-> ToastText(d),
                      tone |-> IF d.success THEN "success" ELSE "critical"]
              /\ lastToastId' = ToastKey(uiVariant, f, d)
              /\ toasted' = toasted \cup {fs[f].inv}
    ELSE /\ fetcher' = fs
         /\ UNCHANGED <<toastMessage, lastToastId, toasted>>

\* ------------------------------------------------------------------ actions
ServerInit ==
    /\ sortOrder \in SortOrders
    /\ \E n \in 0..MaxProducts : shopProducts = [k \in 1..n |-> k]
    /\ metafields = [x \in ProductIds \X Keys |-> <<>>]
    /\ renderedAt = 0
    /\ clock = 0
    /\ edits = 0
    /\ pc = [inv \in Invocations |-> "idle"]
    /\ variant = [inv \in Invocations |-> "session"]
    /\ collectionId = [inv \in Invocations |-> TheCollection]
    /\ collectionHandle = [inv \in Invocations |-> "best-sellers"]
    /\ collection = [inv \in Invocations |-> NoCollection]
    /\ i = [inv \in Invocations |-> 0]
    /\ results = [inv \in Invocations |-> NoResults]
    /\ response = [inv \in Invocations |-> NoResponse]
    /\ queries = [inv \in Invocations |-> 0]
    /\ fetchLog = [inv \in Invocations |-> <<>>]
    /\ writes = [inv \in Invocations |-> <<>>]
    /\ stamps = [inv \in Invocations |-> <<>>]
    /\ pcAtStart = [inv \in Invocations |-> [other \in Invocations |-> "idle"]]
    /\ storedAfter = [inv \in Invocations |-> metafields]

\* The page as first rendered: no submission yet, no toast.
UiInit ==
    /\ fetcher = [f \in Fetchers |-> IdleFetcher]
    /\ toastMessage = NoToast
    /\ lastToastId = <<>>
    /\ toasted = {}

\* The container as deployed: the volume and the database file are there,
\* the entrypoint has not run.
BootInit ==
    /\ bootPc = "init"
    /\ argvStart = TRUE
    /\ bucketName = FALSE
    /\ dataVolume = TRUE
    /\ targetFile = TRUE
    /\ sourcePath = "none"
    /\ newDb = FALSE
    /\ bootLog = <<>>

Init ==
    /\ ServerInit
    /\ uiVariant = "session"
    /\ UiInit
    /\ BootInit

\* A request arrives: authentication, the form data, and the collection
\* query is sent.  (Invocation numbers are given out in order of arrival.)
ActionStart(inv, v, id, handle, auth) ==
    /\ pc[inv] = "idle"
    /\ \A other \in Invocations : other < inv => pc[other] # "idle"
    /\ variant' = [variant EXCEPT ![inv] = v]
    /\ collectionId' = [collectionId EXCEPT ![inv] = id]
    /\ collectionHandle' = [collectionHandle EXCEPT ![inv] = handle]
    /\ pcAtStart' = [pcAtStart EXCEPT ![inv] = pc]
    /\ IF auth = "ok"
       THEN /\ pc' = [pc EXCEPT ![inv] = "fetch"]
            /\ queries' = [queries EXCEPT ![inv] = @ + 1]
            /\ UNCHANGED <<response, storedAfter>>
       ELSE /\ Finish(inv, AuthMissing(v), metafields)
            /\ UNCHANGED queries
    /\ UNCHANGED <<platformVars, collection, i, results, fetchLog, writes, stamps>>

\* The collection query fails: the outer catch answers.
FetchThrows(inv, outcome) ==
    /\ pc[inv] = "fetch"
    /\ Finish(inv, CatchAll(variant[inv], outcome), metafields)
    /\ UNCHANGED <<platformVars, variant, collectionId, collectionHandle,
                   collection, i, results, queries, fetchLog, writes, stamps,
                   pcAtStart>>

\* The collection query is answered: the two guards, then the loop begins.
FetchResolves(inv) ==
    /\ pc[inv] = "fetch"
    /\ LET col == FetchCollection(collectionId[inv], sortOrder, shopProducts) IN
       /\ collection' = [collection EXCEPT ![inv] = col]
       /\ fetchLog' = [fetchLog EXCEPT ![inv] = Append(@, col)]
       /\ IF NotFound(col)
          THEN /\ Finish(inv, JsonError("Collection not found", 404), metafields)
               /\ UNCHANGED <<i, results, writes, stamps, clock>>
          ELSE IF NotManual(col)
          THEN /\ Finish(inv, JsonError("Collection is not manual sort", 400), metafields)
               /\ UNCHANGED <<i, results, writes, stamps, clock>>
          ELSE LoopFrom(inv, col, 0, NoResults, writes[inv], metafields)
    /\ UNCHANGED <<sortOrder, shopProducts, metafields, renderedAt, edits,
                   variant, collectionId, collectionHandle, queries,
                   pcAtStart>>

\* The awaited product write settles and the loop goes on.
\*   "ok":         the platform stored the value and answered
\*   "userErrors": the platform rejected the input and answered with
\*                 userErrors (or, token variant, an errors payload)
\*   "throw":      the call raised (transport error, rate limit, ...)
WriteSettles(inv, outcome) ==
    /\ pc[inv] = "write"
    /\ LET col == LoopCollection(collection[inv],
                     FetchCollection(collectionId[inv], sortOrder, shopProducts))
           k == CHOOSE k \in 1..Len(writes[inv]) : writes[inv][k].outcome = "pending"
           w == writes[inv][k]
           mf == IF outcome = "ok" THEN ApplyProductUpdate(metafields, w)
                                   ELSE metafields
           res == IF outcome = "throw" THEN OnCatch(results[inv], w.productId)
                                       ELSE OnSuccess(results[inv])
           log == [writes[inv] EXCEPT ![k].outcome = outcome]
       IN /\ metafields' = mf
          /\ LoopFrom(inv, col, i[inv] + 1, res, log, mf)
    /\ UNCHANGED <<sortOrder, shopProducts, renderedAt, edits, variant,
                   collectionId, collectionHandle, collection, queries,
                   fetchLog, pcAtStart>>

\* The awaited collection stamp settles (session variant only).
StampSettles(inv, outcome) ==
    /\ pc[inv] = "stamp"
    /\ LET w == stamps[inv][Len(stamps[inv])] IN
       /\ stamps' = [stamps EXCEPT ![inv][Len(stamps[inv])].outcome = outcome]
       /\ renderedAt' = IF outcome = "ok" THEN w.value ELSE renderedAt
       /\ IF outcome \in {"ok", "userErrors"}
          THEN Finish(inv, JsonSuccess(results[inv]), metafields)
          ELSE Finish(inv, CatchAll(variant[inv], outcome), metafields)
    /\ UNCHANGED <<sortOrder, shopProducts, metafields, clock, edits, variant,
                   collectionId, collectionHandle, collection, i, results,
                   queries, fetchLog, writes, pcAtStart>>

\* The merchant drags the product at position k one place down.
MerchantMoves(k) ==
    /\ edits < MaxEdits
    /\ k \in 1..(Len(shopProducts) - 1)
    /\ shopProducts' = [shopProducts EXCEPT ![k] = shopProducts[k + 1],
                                            ![k + 1] = shopProducts[k]]
    /\ edits' = edits + 1
    /\ UNCHANGED <<sortOrder, metafields, renderedAt, clock, invocationVars,
                   historyVars>>

\* The merchant takes the product at position k out of the collection.
MerchantRemoves(k) ==
    /\ edits < MaxEdits
    /\ k \in 1..Len(shopProducts)
    /\ shopProducts' = [j \in 1..(Len(shopProducts) - 1) |->
                           IF j < k THEN shopProducts[j] ELSE shopProducts[j + 1]]
    /\ edits' = edits + 1
    /\ UNCHANGED <<sortOrder, metafields, renderedAt, clock, invocationVars,
                   historyVars>>

\* One request is served; any of its platform calls may fail, and the
\* merchant may edit the collection while it runs.
Next ==
    \/ \E v \in Variants, id \in CollectionIds, handle \in Handles,
          auth \in {"ok", "missing"} : ActionStart(1, v, id, handle, auth)
          /\ UNCHANGED <<uiVars, bootVars>>
    \/ \E outcome \in {"throw", "throw401"} : FetchThrows(1, outcome) /\ UNCHANGED <<uiVars, bootVars>>
    \/ FetchResolves(1) /\ UNCHANGED <<uiVars, bootVars>>
    \/ \E outcome \in {"ok", "userErrors", "throw"} :
          WriteSettles(1, outcome) /\ UNCHANGED <<uiVars, bootVars>>
    \/ \E outcome \in {"ok", "userErrors", "throw", "throw401"} :
          StampSettles(1, outcome) /\ UNCHANGED <<uiVars, bootVars>>
    \/ \E k \in 1..MaxProducts : MerchantMoves(k) /\ UNCHANGED <<uiVars, bootVars>>
    \/ \E k \in 1..MaxProducts : MerchantRemoves(k) /\ UNCHANGED <<uiVars, bootVars>>

Spec == Init /\ [][Next]_vars

\* Two requests are served, one after the other or both at once in any
\* interleaving, while the platform accepts every call; the merchant may
\* edit the collection meanwhile.
NextTwo ==
    \/ \E inv \in Invocations, v \in Variants, id \in CollectionIds,
          handle \in Handles, auth \in {"ok", "missing"} :
          ActionStart(inv, v, id, handle, auth) /\ UNCHANGED <<uiVars, bootVars>>
    \/ \E inv \in Invocations : FetchResolves(inv) /\ UNCHANGED <<uiVars, bootVars>>
    \/ \E inv \in Invocations : WriteSettles(inv, "ok") /\ UNCHANGED <<uiVars, bootVars>>
    \/ \E inv \in Invocations : StampSettles(inv, "ok") /\ UNCHANGED <<uiVars, bootVars>>
    \/ \E k \in 1..MaxProducts : MerchantMoves(k) /\ UNCHANGED <<uiVars, bootVars>>
    \/ \E k \in 1..MaxProducts : MerchantRemoves(k) /\ UNCHANGED <<uiVars, bootVars>>

SpecTwo == Init /\ [][NextTwo]_vars

\* ------------------------------------------------- the page's transitions
\* The merchant presses Render on a row: the fetcher submits the form and
\* the server's action starts.
Click(row, inv, auth) ==
    LET f == FetcherOf(uiVariant, row) IN
    /\ ButtonEnabled(row)
    /\ ActionStart(inv, uiVariant, row, RowHandle(row), auth)
    /\ fetcher' = [fetcher EXCEPT ![f].state = "submitting", ![f].inv = inv]
    /\ UNCHANGED <<uiVariant, toastMessage, lastToastId, toasted, bootVars>>

\* The action's response reaches the fetcher: fetcher.data is set and the
\* fetcher goes on to reload the loaders.
ActionReturns(f) ==
    /\ fetcher[f].state = "submitting"
    /\ pc[fetcher[f].inv] = "done"
    /\ ToastEffect(f, [fetcher EXCEPT ![f].state = "loading",
                                      ![f].data = response[fetcher[f].inv]])
    /\ UNCHANGED <<platformVars, invocationVars, historyVars, uiVariant, bootVars>>

\* The loaders have been reloaded: the fetcher is idle again.
FetcherSettles(f) ==
    /\ fetcher[f].state = "loading"
    /\ IF EffectDepsChange(uiVariant, "loading", "idle")
       THEN ToastEffect(f, [fetcher EXCEPT ![f].state = "idle"])
       ELSE /\ fetcher' = [fetcher EXCEPT ![f].state = "idle"]
            /\ UNCHANGED <<toastMessage, lastToastId, toasted>>
    /\ UNCHANGED <<platformVars, invocationVars, historyVars, uiVariant, bootVars>>

\* <Toast onDismiss={() => setToastMessage(null)}>
DismissToast ==
    /\ toastMessage # NoToast
    /\ toastMessage' = NoToast
    /\ UNCHANGED <<platformVars, invocationVars, historyVars,
                   uiVariant, fetcher, lastToastId, toasted, bootVars>>

\* The page of either variant is open and the merchant uses it.
InitUI ==
    /\ ServerInit
    /\ uiVariant \in Variants
    /\ UiInit
    /\ BootInit

NextUI ==
    \/ \E row \in Rows, inv \in Invocations, auth \in {"ok", "missing"} :
          Click(row, inv, auth)
    \/ \E inv \in Invocations, outcome \in {"throw", "throw401"} :
          FetchThrows(inv, outcome) /\ UNCHANGED <<uiVars, bootVars>>
    \/ \E inv \in Invocations : FetchResolves(inv) /\ UNCHANGED <<uiVars, bootVars>>
    \/ \E inv \in Invocations, outcome \in {"ok", "throw"} :
          WriteSettles(inv, outcome) /\ UNCHANGED <<uiVars, bootVars>>
    \/ \E inv \in Invocations : StampSettles(inv, "ok") /\ UNCHANGED <<uiVars, bootVars>>
    \/ \E f \in Fetchers : ActionReturns(f)
    \/ \E f \in Fetchers : FetcherSettles(f)
    \/ DismissToast

SpecUI == InitUI /\ [][NextUI]_vars

\* ------------------------------------------------ the container entrypoint
ExitCodes == {0, 1}

\* exec(command): the promise resolves when the child exits with code 0 and
\* rejects otherwise.
ExecResolvesAlways(code) == TRUE
ExecResolves(code) == code = 0

Spawned(cmd) == [what |-> "spawn", cmd |-> cmd, code |-> 0]
Exited(cmd, code) == [what |-> "exit", cmd |-> cmd, code |-> code]
Wrote(path) == [what |-> "write", cmd |-> path, code |-> 0]

\* fs.existsSync(source): a symlink is followed, so one whose target is
\* missing does not exist.
SourceExists(src, target) ==
    src = "file" \/ (src = "link" /\ target)

\* Lines 41-47: create the database file if it is not there, then spawn the
\* migration.
CreateAndMigrate(log) ==
    /\ targetFile' = TRUE
    /\ bootLog' = (IF targetFile THEN log
                   ELSE Append(log, Wrote("/data/dev.sqlite")))
                      \o <<Spawned("npx prisma migrate deploy")>>
    /\ bootPc' = "migrate"

\* Lines 51-57: the command line is run under litestream replicate, or as
\* it is.
RunCommand(log) ==
    IF bucketName
    THEN /\ bootLog' = Append(log, Spawned("litestream replicate"))
         /\ bootPc' = "replicate"
    ELSE /\ bootLog' = Append(log, Spawned("server"))
         /\ bootPc' = "serve"

\* The script runs from its first line to its first await, or to the
\* exception that ends it.
BootStart ==
    /\ bootPc = "init"
    /\ IF ~argvStart
       THEN /\ RunCommand(bootLog)
            /\ UNCHANGED <<targetFile, sourcePath, newDb>>
       ELSE IF ~dataVolume
       THEN \* throw new Error('/data volume missing')
            /\ bootPc' = "aborted"
            /\ UNCHANGED <<targetFile, sourcePath, newDb, bootLog>>
       ELSE IF ~SourceExists(sourcePath, targetFile) /\ sourcePath # "none"
       THEN \* symlinkSync raises EEXIST on the dangling link; rethrown
            /\ bootPc' = "aborted"
            /\ UNCHANGED <<targetFile, sourcePath, newDb, bootLog>>
       ELSE /\ sourcePath' = "link"
            /\ newDb' = ~targetFile
            /\ IF ~targetFile /\ bucketName
               THEN /\ bootLog' = Append(bootLog, Spawned("litestream restore"))
                    /\ bootPc' = "restore"
                    /\ UNCHANGED targetFile
               ELSE CreateAndMigrate(bootLog)
    /\ UNCHANGED <<argvStart, bucketName, dataVolume>>
    /\ UNCHANGED <<platformVars, invocationVars, historyVars, uiVars>>

\* litestream restore -if-replica-exists exits: with the database restored,
\* with nothing to restore, or with an error.  A rejection is caught.
RestoreExits(code, restored) ==
    /\ bootPc = "restore"
    /\ restored => code = 0
    /\ LET log == Append(bootLog, Exited("litestream restore", code)) IN
       IF restored
       THEN /\ targetFile' = TRUE
            /\ bootLog' = Append(log, Spawned("npx prisma migrate deploy"))
            /\ bootPc' = "migrate"
       ELSE CreateAndMigrate(log)
    /\ UNCHANGED <<argvStart, bucketName, dataVolume, sourcePath, newDb>>
    /\ UNCHANGED <<platformVars, invocationVars, historyVars, uiVars>>

\* npx prisma migrate deploy exits.
MigrateExits(code) ==
    /\ bootPc = "migrate"
    /\ LET log == Append(bootLog, Exited("npx prisma migrate deploy", code)) IN
       IF ExecResolves(code)
       THEN RunCommand(log)
       ELSE /\ bootLog' = log
            /\ bootPc' = "aborted"
    /\ UNCHANGED <<argvStart, bucketName, dataVolume, targetFile, sourcePath,
                   newDb>>
    /\ UNCHANGED <<platformVars, invocationVars, historyVars, uiVars>>

\* litestream replicate starts the command it was given with -exec, or
\* exits before doing so.
ReplicateExecs ==
    /\ bootPc = "replicate"
    /\ bootLog' = Append(bootLog, Spawned("server"))
    /\ bootPc' = "serve"
    /\ UNCHANGED <<argvStart, bucketName, dataVolume, targetFile, sourcePath,
                   newDb>>
    /\ UNCHANGED <<platformVars, invocationVars, historyVars, uiVars>>

\* The last awaited command exits: the script ends, with an unhandled
\* rejection when the code is not 0.
CommandExits(code) ==
    /\ bootPc \in {"replicate", "serve"}
    /\ bootLog' = Append(bootLog,
          Exited(IF bucketName THEN "litestream replicate" ELSE "server", code))
    /\ bootPc' = IF ExecResolves(code) THEN "exited" ELSE "aborted"
    /\ UNCHANGED <<argvStart, bucketName, dataVolume, targetFile, sourcePath,
                   newDb>>
    /\ UNCHANGED <<platformVars, invocationVars, historyVars, uiVars>>

\* The container starts with any command line, with or without the bucket,
\* the volume, the database file, and anything at the symlink's path.
InitBoot ==
    /\ ServerInit
    /\ sortOrder = "MANUAL"
    /\ shopProducts = <<>>
    /\ uiVariant = "session"
    /\ UiInit
    /\ bootPc = "init"
    /\ argvStart \in BOOLEAN
    /\ bucketName \in BOOLEAN
    /\ dataVolume \in BOOLEAN
    /\ targetFile \in {b \in BOOLEAN : b => dataVolume}
    /\ sourcePath \in {"none", "file", "link"}
    /\ newDb = FALSE
    /\ bootLog = <<>>

NextBoot ==
    \/ BootStart
    \/ \E code \in ExitCodes, restored \in BOOLEAN : RestoreExits(code, restored)
    \/ \E code \in ExitCodes : MigrateExits(code)
    \/ ReplicateExecs
    \/ \E code \in ExitCodes : CommandExits(code)

SpecBoot == InitBoot /\ [][NextBoot]_vars

\* ------------------------------------------------------- reading the logs
Done(inv) == pc[inv] = "done"

\* The collection the platform served to the invocation's read query.
Answered(inv) == Len(fetchLog[inv]) >= 1
Fetched(inv) == fetchLog[inv][1]
PassedGuards(inv) ==
    Answered(inv) /\ Fetched(inv).found /\ Fetched(inv).sortOrder = "MANUAL"

\* The products whose write the platform answered with the given outcome.
WritesWith(inv, outcome) ==
    {k \in 1..Len(writes[inv]) : writes[inv][k].outcome = outcome}
AllWritesOk(inv) == WritesWith(inv, "ok") = 1..Len(writes[inv])
StampRaised(inv) ==
    \E k \in 1..Len(stamps[inv]) : stamps[inv][k].outcome \in {"throw", "throw401"}

\* The (product, key, value) triples written, in the order sent.
WriteTriples(inv) ==
    [k \in 1..Len(writes[inv]) |->
        <<writes[inv][k].productId, writes[inv][k].key, writes[inv][k].value>>]

\* ------------------------------------------------------------------ claims

\* C1: for a manually-sorted collection whose fetched list has N products and
\* whose writes all succeed, the invocation sends exactly N product writes, the
\* k-th (1-based) for the k-th fetched product, keyed <handle>_rank, with value
\* k (0-based position + 1), and returns results success = N, failed = 0.
C1_RanksAreOneBasedPositions ==
    \A inv \in Invocations :
        (Done(inv) /\ PassedGuards(inv) /\ AllWritesOk(inv) /\ ~StampRaised(inv))
        => LET N == Len(Fetched(inv).products) IN
           /\ Len(writes[inv]) = N
           /\ \A k \in 1..N :
                /\ writes[inv][k].productId = Fetched(inv).products[k]
                /\ writes[inv][k].key = RankKey(collectionHandle[inv])
                /\ writes[inv][k].value = toString(k)
                /\ ParseInt(writes[inv][k].value) = (k - 1) + 1
           /\ response[inv].hasResults
           /\ response[inv].results.success = N
           /\ response[inv].results.failed = 0

C1_Witness ==
    \E inv \in Invocations :
        /\ Done(inv) /\ PassedGuards(inv) /\ AllWritesOk(inv)
        /\ Len(Fetched(inv).products) >= 2
        /\ Len(writes[inv]) = Len(Fetched(inv).products)
        /\ response[inv].status = 200

C3_NotManualWritesNothing ==
    \A inv \in Invocations :
        (Done(inv) /\ Answered(inv) /\ Fetched(inv).found
            /\ Fetched(inv).sortOrder # "MANUAL")
        => /\ response[inv] = JsonError("Collection is not manual sort", 400)
           /\ writes[inv] = <<>>
           /\ stamps[inv] = <<>>

C3_Witness ==
    \E inv \in Invocations :
        /\ Done(inv) /\ Answered(inv) /\ Fetched(inv).found
        /\ Fetched(inv).sortOrder = "BEST_SELLING"
        /\ Len(Fetched(inv).products) >= 1
        /\ response[inv].status = 400

\* C4: when the collection id resolves to nothing the invocation ends with
\* status 404 'Collection not found', returns no results object, and the
\* platform has received no write mutation from it.
C4_NotFoundWritesNothing ==
    \A inv \in Invocations :
        (Done(inv) /\ Answered(inv) /\ ~Fetched(inv).found)
        => /\ response[inv] = JsonError("Collection not found", 404)
           /\ ~response[inv].hasResults
           /\ writes[inv] = <<>>
           /\ stamps[inv] = <<>>

C4_Witness ==
    \E inv \in Invocations :
        /\ Done(inv) /\ Answered(inv) /\ ~Fetched(inv).found
        /\ collectionId[inv] # TheCollection
        /\ response[inv].status = 404

\* C5: any failure of a product's write, a rejection answered with userErrors
\* (or an error payload) included, increments the failed counter and appends a
\* diagnostic record for that product, and such a product is never counted in
\* success.  (The code counts an answered rejection as a success.)
C5_RejectedWritesCountAsFailed ==
    \A inv \in Invocations :
        LET failedWrites == WritesWith(inv, "throw") \cup WritesWith(inv, "userErrors")
            reported == {results[inv].errors[k].productId :
                            k \in 1..Len(results[inv].errors)}
        IN /\ results[inv].failed = Cardinality(failedWrites)
           /\ results[inv].success = Cardinality(WritesWith(inv, "ok"))
           /\ \A k \in failedWrites : writes[inv][k].productId \in reported

\* C6: once the fetch has succeeded and both guards have passed, the invocation
\* always ends by returning the aggregate result (success flag true, with the
\* results counts), whatever happens in the loop or in the stamp; the status
\* 500 outcome is reachable only from an exception raised during the fetch.
\* (In the session variant a raising stamp ends the invocation in the outer
\* catch instead.)
C6_AlwaysReturnsAggregate ==
    \A inv \in Invocations :
        /\ (Done(inv) /\ PassedGuards(inv))
            => /\ response[inv].status = 200
               /\ response[inv].success
               /\ response[inv].hasResults
               /\ response[inv].results = results[inv]
        /\ (Done(inv) /\ response[inv].status = 500) => ~Answered(inv)

\* C7: two runs in succession on a collection whose order and membership the
\* two runs saw unchanged, all writes succeeding: both runs send the same
\* (product, key, value) writes, and every product's stored rank after the
\* second run equals its stored rank after the first.
C7_RerunIsIdempotent ==
    \A a, b \in Invocations :
        (/\ a # b /\ Done(a) /\ Done(b)
         /\ pcAtStart[b][a] = "done"
         /\ PassedGuards(a) /\ PassedGuards(b)
         /\ collectionHandle[a] = collectionHandle[b]
         /\ Fetched(a).products = Fetched(b).products
         /\ AllWritesOk(a) /\ AllWritesOk(b))
        => /\ WriteTriples(a) = WriteTriples(b)
           /\ Len(writes[b]) = Len(Fetched(b).products)
           /\ \A p \in Range(Fetched(a).products) :
                LET cell == <<p, RankKey(collectionHandle[a])>> IN
                /\ storedAfter[a][cell] # <<>>
                /\ storedAfter[b][cell] = storedAfter[a][cell]

C7_Witness ==
    /\ Done(1) /\ Done(2)
    /\ pcAtStart[2][1] = "done"
    /\ PassedGuards(1) /\ PassedGuards(2)
    /\ collectionHandle[1] = collectionHandle[2]
    /\ Fetched(1).products = Fetched(2).products
    /\ Len(Fetched(1).products) >= 2
    /\ Len(writes[2]) = Len(Fetched(2).products)

\* C8: two invocations for the same collection may run at once; when both saw
\* the same product list and all writes succeed, in every interleaving both
\* write the same rank to each product, and once both have returned every
\* product's stored rank is its 1-based position, as after a single run.
C8_ConcurrentRunsAgree ==
    \A a, b \in Invocations :
        (/\ a # b
         /\ PassedGuards(a) /\ PassedGuards(b)
         /\ collectionHandle[a] = collectionHandle[b]
         /\ Fetched(a).products = Fetched(b).products
         /\ WritesWith(a, "throw") = {} /\ WritesWith(a, "userErrors") = {}
         /\ WritesWith(b, "throw") = {} /\ WritesWith(b, "userErrors") = {})
        => LET prods == Fetched(a).products
               key == RankKey(collectionHandle[a])
           IN /\ \A ka \in 1..Len(writes[a]), kb \in 1..Len(writes[b]) :
                    writes[a][ka].productId = writes[b][kb].productId
                    => /\ writes[a][ka].key = writes[b][kb].key
                       /\ writes[a][ka].value = writes[b][kb].value
              /\ (Done(a) /\ Done(b))
                    => \A k \in 1..Len(prods) :
                          /\ metafields[<<prods[k], key>>] # <<>>
                          /\ ParseInt(metafields[<<prods[k], key>>]) = k
              /\ edits = 0 => prods = shopProducts

C8_Witness ==
    /\ Done(1) /\ Done(2)
    /\ pcAtStart[2][1] = "write"
    /\ PassedGuards(1) /\ PassedGuards(2)
    /\ collectionHandle[1] = collectionHandle[2]
    /\ Fetched(1).products = Fetched(2).products
    /\ Len(Fetched(1).products) >= 2
    /\ Len(writes[1]) >= 2 /\ Len(writes[2]) >= 2

\* C9: within one invocation the product writes are sent one at a time and in
\* fetched list order: a write is sent only when every earlier one has settled
\* (succeeded or failed), so at most one of them is in flight.
C9_WritesAreSequential ==
    \A inv \in Invocations :
        /\ Cardinality(WritesWith(inv, "pending")) <= 1
        /\ \A k \in 1..Len(writes[inv]) :
              /\ k < Len(writes[inv]) => writes[inv][k].outcome # "pending"
              /\ Answered(inv)
              /\ k <= Len(Fetched(inv).products)
              /\ writes[inv][k].productId = Fetched(inv).products[k]
        /\ WritesWith(inv, "pending") # {} <=> pc[inv] = "write"

C9_Witness ==
    \E inv \in Invocations :
        /\ pc[inv] = "write"
        /\ Len(writes[inv]) >= 3
        /\ writes[inv][1].outcome = "throw"
        /\ writes[inv][2].outcome = "ok"
        /\ writes[inv][3].outcome = "pending"

\* C10: an invocation sends exactly one read query, and every rank it writes is
\* the product's 1-based index in the list that one fetch returned, also when
\* the merchant changes the collection's order or membership during the write
\* phase; nothing is fetched again.
C10_RanksFollowTheSnapshot ==
    \A inv \in Invocations :
        /\ queries[inv] <= 1
        /\ Len(fetchLog[inv]) <= queries[inv]
        /\ pc[inv] \in {"fetch", "write", "stamp"} => queries[inv] = 1
        /\ Done(inv) =>
              queries[inv] = IF response[inv] = AuthMissing(variant[inv]) THEN 0 ELSE 1
        /\ \A k \in 1..Len(writes[inv]) :
              /\ Answered(inv)
              /\ writes[inv][k].productId \in Range(Fetched(inv).products)
              /\ ParseInt(writes[inv][k].value)
                    = IndexOf(Fetched(inv).products, writes[inv][k].productId)

C10_Witness ==
    \E inv \in Invocations :
        /\ pc[inv] = "write"
        /\ edits > 0
        /\ Fetched(inv).products # shopProducts
        /\ Len(writes[inv]) >= 2
        /\ LET w == writes[inv][Len(writes[inv])] IN
              /\ w.outcome = "pending"
              /\ IndexOf(shopProducts, w.productId) # ParseInt(w.value)
              /\ IndexOf(shopProducts, w.productId) # 0

\* C11: in the session variant every invocation that passes both guards sends
\* exactly one collection stamp (rendered_at, on the requested collection), and
\* sends it only when the write of the last product has settled, however many
\* product writes failed; an invocation that ends on a guard sends none.
C11_OneStampAfterTheLoop ==
    \A inv \in Invocations :
        /\ Len(stamps[inv]) <= 1
        /\ stamps[inv] # <<>> =>
              /\ variant[inv] = "session"
              /\ PassedGuards(inv)
              /\ Len(writes[inv]) = Len(Fetched(inv).products)
              /\ WritesWith(inv, "pending") = {}
              /\ stamps[inv][1].key = "rendered_at"
              /\ stamps[inv][1].id = collectionId[inv]
        /\ (variant[inv] = "session" /\ PassedGuards(inv) /\ pc[inv] \in {"stamp", "done"})
              => Len(stamps[inv]) = 1
        /\ (pc[inv] = "stamp") <=> (stamps[inv] # <<>> /\ stamps[inv][1].outcome = "pending")
        /\ (Done(inv) /\ ~PassedGuards(inv)) => stamps[inv] = <<>>

C11_Witness ==
    \E inv \in Invocations :
        /\ Done(inv) /\ variant[inv] = "session" /\ PassedGuards(inv)
        /\ Len(writes[inv]) >= 2
        /\ WritesWith(inv, "throw") = 1..Len(writes[inv])
        /\ Len(stamps[inv]) = 1
        /\ stamps[inv][1].outcome = "ok"
        /\ renderedAt = stamps[inv][1].value

\* C14: throughout the loop success + failed is the number of products whose
\* write has settled and errors has `failed` entries; so every returned
\* aggregate has success + failed = N and `failed` errors, and its top-level
\* success flag is true even when failed = N.
C14_CountersAddUp ==
    \A inv \in Invocations :
        LET settled == Len(writes[inv]) - Cardinality(WritesWith(inv, "pending")) IN
        /\ results[inv].success + results[inv].failed = settled
        /\ Len(results[inv].errors) = results[inv].failed
        /\ pc[inv] = "write" => i[inv] = settled
        /\ (Done(inv) /\ response[inv].hasResults) =>
              /\ response[inv].results.success + response[inv].results.failed
                    = Len(Fetched(inv).products)
              /\ Len(response[inv].results.errors) = response[inv].results.failed
              /\ response[inv].success
              /\ response[inv].status = 200

C14_Witness ==
    \E inv \in Invocations :
        /\ Done(inv) /\ response[inv].hasResults
        /\ Len(Fetched(inv).products) >= 2
        /\ response[inv].results.failed = Len(Fetched(inv).products)
        /\ response[inv].results.success = 0
        /\ response[inv].success

\* ------------------------------------------------------------------- C12
\* C12: every completed invocation started from the page ends in a toast
\* showing its success summary or its error, also when the same collection
\* is rendered again and when two invocations in a row return the same text:
\* once a fetcher is idle again, the invocation it carried has been toasted.
C12_EveryInvocationIsToasted ==
    \A f \in Fetchers :
        (fetcher[f].state = "idle" /\ fetcher[f].inv # 0)
            => fetcher[f].inv \in toasted

\* ------------------------------------------------------------------- C13
\* C13: the page has at most one invocation in flight: while a submission is
\* in the submitting state no Render button of any row starts another one,
\* and the button of a row that is not MANUAL never starts one.
InFlight == {inv \in Invocations : pc[inv] \in {"fetch", "write", "stamp"}}
Submitting == {f \in Fetchers : fetcher[f].state = "submitting"}

C13_OneInvocationInFlight ==
    /\ Cardinality(InFlight) <= 1
    /\ Cardinality(Submitting) <= 1
    /\ \A inv \in Invocations :
          pc[inv] # "idle" => RowSortOrder(collectionId[inv]) = "MANUAL"

\* ------------------------------------------------------------------- C15
LogPositions(e) == {k \in 1..Len(bootLog) : bootLog[k] = e}
ServerStarts ==
    LogPositions(Spawned("server")) \cup LogPositions(Spawned("litestream replicate"))

\* C15: when the command line ends in "npm run start", the server command is
\* started only after /data/dev.sqlite exists and prisma migrate deploy has
\* exited with code 0; a restore is attempted only when the file is absent
\* and BUCKET_NAME is set; a failed restore does not abort (an empty file is
\* created and the migration still runs); a missing /data volume or a
\* non-zero migration exit aborts before the server command is started.
C15_ServerStartsAfterMigration ==
    /\ argvStart =>
          \A k \in ServerStarts :
              /\ targetFile
              /\ \E j \in 1..(k - 1) :
                    bootLog[j] = Exited("npx prisma migrate deploy", 0)
    /\ LogPositions(Spawned("litestream restore")) # {} =>
          argvStart /\ newDb /\ bucketName
    /\ bootPc = "restore" => ~targetFile /\ bucketName
    /\ \A k \in 1..Len(bootLog) :
          (bootLog[k].what = "exit" /\ bootLog[k].cmd = "litestream restore"
              /\ bootLog[k].code # 0)
            => /\ Len(bootLog) >= k + 2
               /\ bootLog[k + 1] = Wrote("/data/dev.sqlite")
               /\ bootLog[k + 2] = Spawned("npx prisma migrate deploy")
               /\ targetFile
    /\ (argvStart /\ ~dataVolume) =>
          /\ bootLog = <<>>
          /\ bootPc \in {"init", "aborted"}
    /\ \A k \in 1..Len(bootLog) :
          (bootLog[k].what = "exit" /\ bootLog[k].cmd = "npx prisma migrate deploy"
              /\ bootLog[k].code # 0)
            => /\ k = Len(bootLog)
               /\ bootPc = "aborted"
               /\ ServerStarts = {}

\* The restore failed, the migration succeeded and the server was started.
C15_Witness ==
    /\ argvStart
    /\ bootPc = "serve"
    /\ LogPositions(Exited("litestream restore", 1)) # {}
    /\ LogPositions(Exited("npx prisma migrate deploy", 0)) # {}
    /\ LogPositions(Spawned("server")) # {}

====
